---- MODULE Spec2Model ----
(***************************************************************************)
(* Model of pipelines/blend_images_pipeline.py: the Pipeline class of the  *)
(* Dual-Node Blender.  Three specifications:                               *)
(*   Spec         one run of Pipeline.pipe (the generator), with the       *)
(*                vision, generation and storage collaborators answering   *)
(*                nondeterministically;                                    *)
(*   SpecNorm     Pipeline._safe_json_from_text on every bounded text;     *)
(*   SpecCompact  Pipeline._traits_to_compact_line on every bounded dict   *)
(*                and on a reordering of it.                               *)
(*                                                                         *)
(* Text is a sequence of lexical tokens.  Each token stands for a fixed    *)
(* piece of text:                                                          *)
(*   "ws"    one blank                    "fence"  ```                     *)
(*   "json"  the word json                "lb"     {                       *)
(*   "rb"    }                            "kv"     "style":"x"             *)
(*   "ko"    "foo":"x"                    "num"    42                      *)
(*   "str"   "hi"  (quotes included)      "list"   [1]                     *)
(*   "txt"   hello                                                         *)
(***************************************************************************)
EXTENDS Integers, Sequences, FiniteSets, TLC

VARIABLES
    \* ---- one run of Pipeline.pipe ----
    pc,                 \* position of the generator
    latest_images,      \* how many images the latest turn of body carries
    user_instruction,   \* local of pipe (token sequence)
    images,             \* local of pipe
    traits,             \* local of pipe: list of normalised vision answers
    morph_prompt,       \* local of pipe
    subject_type,       \* local of pipe
    data_list,          \* local of pipe: candidates of the generation response
    idx,                \* local of pipe: enumerate(data_list, start=1)
    out_links,          \* local of pipe
    out,                \* the messages yielded so far, in order
    calls,              \* the collaborator calls made so far, in order
    \* ---- _safe_json_from_text ----
    nText, nResult, nPc,
    \* ---- _traits_to_compact_line ----
    cTraits, cShuffled, cLine, cLineShuffled, cPc

pipeVars == <<pc, latest_images, user_instruction, images, traits, morph_prompt, subject_type,
              data_list, idx, out_links, out, calls>>
normVars == <<nText, nResult, nPc>>
compVars == <<cTraits, cShuffled, cLine, cLineShuffled, cPc>>
vars == <<pipeVars, normVars, compVars>>

\* ------------------------------------------------------------------ bounds
MaxTextLen == 5     \* tokens in a text given to _safe_json_from_text
MaxEntries == 3     \* entries of a dict given to _traits_to_compact_line
MaxImages == 3      \* images carried by the latest turn
MaxItems == 2       \* items of a list-valued message content
MaxCands == 3       \* candidates in a generation response

\* ------------------------------------------------------------------ helpers
Min(S) == CHOOSE x \in S : \A y \in S : x <= y
Max(S) == CHOOSE x \in S : \A y \in S : x >= y

SeqsUpTo(S, n) == UNION {[1..k -> S] : k \in 0..n}

None == [t |-> "None", entries |-> <<>>]

\* ------------------------------------------------------------------ text
Tokens == {"ws", "fence", "json", "lb", "rb", "kv", "ko", "num", "str", "list", "txt"}

\* str.lstrip / str.rstrip / str.strip on a token sequence
LStrip(s) ==
    LET keep == {j \in 1..Len(s) : s[j] # "ws"}
    IN  IF keep = {} THEN <<>> ELSE SubSeq(s, Min(keep), Len(s))

RStrip(s) ==
    LET keep == {j \in 1..Len(s) : s[j] # "ws"}
    IN  IF keep = {} THEN <<>> ELSE SubSeq(s, 1, Max(keep))

Strip(s) == LStrip(RStrip(s))

\* re.sub(r"^```json\s*", "", t, flags=re.IGNORECASE).strip()
StripJsonFence(t) ==
    IF Len(t) >= 2 /\ t[1] = "fence" /\ t[2] = "json"
    THEN Strip(LStrip(SubSeq(t, 3, Len(t))))
    ELSE Strip(t)

\* re.sub(r"^```\s*", "", t).strip()
StripOpenFence(t) ==
    IF Len(t) >= 1 /\ t[1] = "fence"
    THEN Strip(LStrip(SubSeq(t, 2, Len(t))))
    ELSE Strip(t)

\* re.sub(r"\s*```$", "", t).strip()
StripCloseFence(t) ==
    IF Len(t) >= 1 /\ t[Len(t)] = "fence"
    THEN Strip(RStrip(SubSeq(t, 1, Len(t) - 1)))
    ELSE Strip(t)

\* The dict entry a key/value token denotes.
EntryOf(tok) ==
    IF tok = "kv" THEN [k |-> "style", v |-> <<"x">>]
    ELSE [k |-> "foo", v |-> <<"x">>]

\* json.loads on a token sequence: [ok |-> FALSE] when it raises, else the
\* Python value: a dict (entries in insertion order), an int, a str, a list.
JsonLoads(toks) ==
    LET s == Strip(toks)
        n == Len(s)
        inner == IF n >= 2 THEN Strip(SubSeq(s, 2, n - 1)) ELSE <<>>
    IN  IF n >= 1 /\ \A j \in 1..n : s[j] = "num"
        THEN [ok |-> TRUE, val |-> [t |-> "int", entries |-> <<>>]]
        ELSE IF n = 1 /\ s[1] = "str"
        THEN [ok |-> TRUE, val |-> [t |-> "str", entries |-> <<>>]]
        ELSE IF n = 1 /\ s[1] = "list"
        THEN [ok |-> TRUE, val |-> [t |-> "list", entries |-> <<>>]]
        ELSE IF n >= 2 /\ s[1] = "lb" /\ s[n] = "rb" /\ inner = <<>>
        THEN [ok |-> TRUE, val |-> [t |-> "dict", entries |-> <<>>]]
        ELSE IF n >= 3 /\ s[1] = "lb" /\ s[n] = "rb" /\ Len(inner) = 1
                /\ inner[1] \in {"kv", "ko"}
        THEN [ok |-> TRUE, val |-> [t |-> "dict", entries |-> <<EntryOf(inner[1])>>]]
        ELSE [ok |-> FALSE, val |-> None]

\* re.search(r"\{.*\}", t, flags=re.DOTALL): the span from the first "{" to
\* the last "}" after it; [found |-> FALSE] when there is no match.
SearchBraces(t) ==
    LET lbs == {j \in 1..Len(t) : t[j] = "lb"}
        rbs == {j \in 1..Len(t) : t[j] = "rb"}
    IN  IF lbs # {} /\ \E r \in rbs : r > Min(lbs)
        THEN [found |-> TRUE, group |-> SubSeq(t, Min(lbs), Max(rbs))]
        ELSE [found |-> FALSE, group |-> <<>>]

RawDict(t) == [t |-> "dict", entries |-> <<[k |-> "raw", v |-> t]>>]

\* Pipeline._safe_json_from_text
SafeJsonFromText(text) ==
    LET t == StripCloseFence(StripOpenFence(StripJsonFence(Strip(text))))
        direct == JsonLoads(t)
        m == SearchBraces(t)
        block == JsonLoads(m.group)
    IN  IF direct.ok THEN direct.val
        ELSE IF m.found /\ block.ok THEN block.val
        ELSE RawDict(t)

\* ------------------------------------------------------------------ traits
\* keys_order of _traits_to_compact_line
KeysOrder == <<"primary_subject", "color_palette", "dominant_textures", "scene_type",
               "lighting", "composition", "notable_features", "style">>

Vocabulary == {KeysOrder[j] : j \in 1..Len(KeysOrder)}

\* k.replace('_', ' ')
HumanKey(k) ==
    CASE k = "primary_subject" -> "primary subject"
      [] k = "color_palette" -> "color palette"
      [] k = "dominant_textures" -> "dominant textures"
      [] k = "scene_type" -> "scene type"
      [] k = "notable_features" -> "notable features"
      [] OTHER -> k

DictKeys(d) == {d.entries[j].k : j \in 1..Len(d.entries)}

\* traits.get(k): the value, or <<>> (falsy, as None is) when k is absent
DictGet(d, k) ==
    IF k \in DictKeys(d)
    THEN d.entries[CHOOSE j \in 1..Len(d.entries) : d.entries[j].k = k].v
    ELSE <<>>

IsVocabularyKey(k) == k \in Vocabulary

\* the recognised keys of d in the order the dict holds them
ScanOrderByInput(d) == SelectSeq([j \in 1..Len(d.entries) |-> d.entries[j].k], IsVocabularyKey)

\* the order in which the for loop of _traits_to_compact_line visits the keys
ScanOrder(d) == KeysOrder

\* the loop over keys_order: one "key: value" part per key with a truthy value
RECURSIVE PartsFrom(_, _, _)
PartsFrom(d, order, j) ==
    IF j > Len(order) THEN <<>>
    ELSE LET v == DictGet(d, order[j])
         IN  IF v # <<>> /\ order[j] \in Vocabulary
             THEN <<[k |-> HumanKey(order[j]), v |-> v]>> \o PartsFrom(d, order, j + 1)
             ELSE PartsFrom(d, order, j + 1)

\* Pipeline._traits_to_compact_line.  The result is tagged with the way it was
\* built: "str" is str(traits), "raw" is traits["raw"], "line" is the parts
\* joined with "; ", "json" is json.dumps(traits).
TraitsToCompactLine(d) ==
    IF d.t # "dict"
    THEN [kind |-> "str", parts |-> <<>>, text |-> <<>>, of |-> d]
    ELSE IF "raw" \in DictKeys(d) /\ Len(d.entries) = 1
    THEN [kind |-> "raw", parts |-> <<>>, text |-> d.entries[1].v, of |-> None]
    ELSE LET parts == PartsFrom(d, ScanOrder(d), 1)
         IN  IF parts # <<>>
             THEN [kind |-> "line", parts |-> parts, text |-> <<>>, of |-> None]
             ELSE [kind |-> "json", parts |-> <<>>, text |-> <<>>, of |-> d]

\* ------------------------------------------------------------------ request
\* Length of the text a word token stands for ("ws" is one blank).
WordLen(w) ==
    CASE w = "ws" -> 1
      [] w = "hi" -> 2
      [] w = "dog" -> 3
      [] w = "city" -> 4
      [] OTHER -> 8

RECURSIVE TextLen(_)
TextLen(s) == IF s = <<>> THEN 0 ELSE WordLen(Head(s)) + TextLen(Tail(s))

ImgA == [wrap |-> "dict", hdr |-> "data:image/png;base64", data |-> "AAAA"]
ImgB == [wrap |-> "str", hdr |-> "", data |-> "BBBB"]
ImagePool == {ImgA, ImgB}

NoUrl == [hdr |-> "", data |-> ""]

\* img.get("url", "") if isinstance(img, dict) else img
UrlOf(img) == [hdr |-> img.hdr, data |-> img.data]

\* items of a list-valued content: a text part, an image part, an image part
\* without its "image_url" entry, and an entry that is not a dict
TextItem == [type |-> "text", text |-> <<"hi">>, hasUrl |-> FALSE, url |-> NoUrl]
ImageItem(img) == [type |-> "image_url", text |-> <<>>, hasUrl |-> TRUE, url |-> UrlOf(img)]
BrokenImageItem == [type |-> "image_url", text |-> <<>>, hasUrl |-> FALSE, url |-> NoUrl]
NonDictItem == [type |-> "nondict", text |-> <<>>, hasUrl |-> FALSE, url |-> NoUrl]
Items == {TextItem, BrokenImageItem, NonDictItem} \cup {ImageItem(g) : g \in ImagePool}

ContentStrings == {<<>>, <<"ws", "dog", "ws">>}

Contents ==
    {[type |-> "str", text |-> s, items |-> <<>>] : s \in ContentStrings}
    \cup {[type |-> "list", text |-> <<>>, items |-> l] : l \in SeqsUpTo(Items, MaxItems)}

\* the "images" lists of a message: the two images in turn, either one first
ImageLists ==
    {[j \in 1..k |-> IF j % 2 = 1 THEN first ELSE CHOOSE g \in ImagePool : g # first] :
        first \in ImagePool, k \in 0..MaxImages}

\* a message of the conversation: its content and its optional "images" list
Turns ==
    {[content |-> c, hasImages |-> FALSE, images |-> <<>>] : c \in Contents}
    \cup {[content |-> c, hasImages |-> TRUE, images |-> l] :
            c \in Contents, l \in ImageLists}

OlderTurn == [content |-> [type |-> "str", text |-> <<"city">>, items |-> <<>>],
              hasImages |-> TRUE, images |-> <<ImgA, ImgB>>]

\* body["messages"]: no message, or a latest turn with or without an older one
Bodies == {<<>>} \cup {older \o <<m>> : older \in {<<>>, <<OlderTurn>>}, m \in Turns}

RECURSIVE ConcatText(_)
ConcatText(items) ==
    IF items = <<>> THEN <<>>
    ELSE (IF Head(items).type = "text" THEN Head(items).text ELSE <<>>)
         \o ConcatText(Tail(items))

RECURSIVE ImagesOfItems(_)
ImagesOfItems(items) ==
    IF items = <<>> THEN <<>>
    ELSE (IF Head(items).type = "image_url"
          THEN <<[wrap |-> "dict", hdr |-> Head(items).url.hdr, data |-> Head(items).url.data]>>
          ELSE <<>>)
         \o ImagesOfItems(Tail(items))

RECURSIVE CountImageParts(_)
CountImageParts(items) ==
    IF items = <<>> THEN 0
    ELSE (IF Head(items).type = "image_url" THEN 1 ELSE 0) + CountImageParts(Tail(items))

\* the images the latest turn of body["messages"] carries: the entries of its
\* "images" list, or else the image parts of its list-valued content
ImagesCarried(messages) ==
    IF messages = <<>> THEN 0
    ELSE LET last_msg == messages[Len(messages)]
         IN  IF last_msg.hasImages THEN Len(last_msg.images)
             ELSE IF last_msg.content.type = "list"
             THEN CountImageParts(last_msg.content.items)
             ELSE 0

\* Pipeline._extract_user_instruction_and_images.  raised names the exception
\* that leaves the function ("" when it returns).
ExtractUserInstructionAndImages(messages) ==
    IF messages = <<>>
    THEN [raised |-> "", instruction |-> <<>>, images |-> <<>>]
    ELSE LET last_msg == messages[Len(messages)]
             content == last_msg.content
             isList == content.type = "list"
         IN  IF isList /\ \E j \in 1..Len(content.items) : content.items[j].type = "nondict"
             THEN [raised |-> "AttributeError", instruction |-> <<>>, images |-> <<>>]
             ELSE IF ~last_msg.hasImages /\ isList
                     /\ \E j \in 1..Len(content.items) :
                           content.items[j].type = "image_url" /\ ~content.items[j].hasUrl
             THEN [raised |-> "KeyError", instruction |-> <<>>, images |-> <<>>]
             ELSE [raised |-> "",
                   instruction |->
                       Strip(IF isList THEN ConcatText(content.items) ELSE content.text),
                   images |->
                       IF last_msg.hasImages THEN last_msg.images
                       ELSE IF isList THEN ImagesOfItems(content.items)
                       ELSE <<>>]

\* Pipeline._to_b64_payload: a data URI loses its header, anything else is kept
ToB64Payload(url) ==
    IF url.hdr = "data:image/png;base64" THEN [hdr |-> "", data |-> url.data] ELSE url

\* Pipeline._detect_subject_type
DetectSubjectType(instruction) ==
    LET words == {instruction[j] : j \in 1..Len(instruction)}
    IN  IF "portrait" \in words THEN "a person"
        ELSE IF "dog" \in words THEN "an animal"
        ELSE IF "city" \in words THEN "a scene"
        ELSE "a subject"

\* the f-string building morph_prompt, with the "User preferences" suffix
ComposePrompt(p1, p2, instruction) ==
    [image1 |-> p1, image2 |-> p2,
     preferences |-> IF instruction # <<>> /\ TextLen(instruction) > 2
                     THEN instruction ELSE <<>>]

NoPrompt == [image1 |-> None, image2 |-> None, preferences |-> <<>>]

\* ------------------------------------------------------------------ messages
\* A yielded message: its kind, its fixed text, and what it carries.
Msg(kind, info, n) ==
    [kind |-> kind, info |-> info, n |-> n, links |-> <<>>, prompt |-> NoPrompt]

MsgInsufficient == Msg("insufficient", "Please upload two images to morph.", 0)
MsgAnalyzing(n) == Msg("staged", "STAGED: Analyzing image", n)
MsgGenerating == Msg("staged", "STAGED: Generating candidates...", 0)
MsgSaving == Msg("staged", "STAGED: Saving results...", 0)
MsgNoImages == Msg("error", "Error: No images returned.", 0)
MsgNotStored == Msg("error", "Error: Could not decode/store generated images.", 0)
MsgPipelineError(e) == Msg("pipeline_error", e, 0)
MsgGallery(links, prompt) ==
    [kind |-> "gallery", info |-> "### Morph Results (multiple candidates)",
     n |-> Len(links), links |-> links, prompt |-> prompt]

\* ------------------------------------------------------------------ collaborators
\* What an HTTP collaborator can do: fail in transport (fail names the
\* exception requests.post raises), or answer with a status and a body that
\* is not JSON ("text"), a JSON array, or a JSON object.
TransportFailures == {"ConnectionError", "Timeout"}

VisionTexts == {<<"fence", "json", "ws", "lb", "kv", "rb", "ws", "fence">>, <<"txt">>}

VisionOutcomes ==
    {[fail |-> f, status |-> 0, body |-> "none", hasMessage |-> FALSE, content |-> <<>>] :
        f \in TransportFailures}
    \cup {[fail |-> "", status |-> 200, body |-> "object", hasMessage |-> TRUE, content |-> c] :
            c \in VisionTexts}
    \cup {[fail |-> "", status |-> 500, body |-> "text", hasMessage |-> FALSE, content |-> <<>>],
          [fail |-> "", status |-> 404, body |-> "object", hasMessage |-> FALSE, content |-> <<>>],
          [fail |-> "", status |-> 200, body |-> "array", hasMessage |-> FALSE, content |-> <<>>]}

\* requests.post(...).json() and (resp.get("message") or {}).get("content", "")
VisionText(o) ==
    IF o.fail # "" THEN [raised |-> o.fail, text |-> <<>>]
    ELSE IF o.body = "text" THEN [raised |-> "JSONDecodeError", text |-> <<>>]
    ELSE IF o.body = "array" THEN [raised |-> "AttributeError", text |-> <<>>]
    ELSE [raised |-> "", text |-> IF o.hasMessage THEN o.content ELSE <<>>]

\* candidates of a generation response
CandNone == [b64 |-> "", url |-> ""]
CandUrl == [b64 |-> "", url |-> "http://gen/u.png"]
CandInline == [b64 |-> "QUJD", url |-> ""]
CandBadInline == [b64 |-> "A", url |-> ""]
CandBoth == [b64 |-> "QUJD", url |-> "http://gen/u.png"]
Candidates == {CandNone, CandUrl, CandInline, CandBadInline, CandBoth}

GenOutcomes ==
    {[fail |-> f, status |-> 0, body |-> "none", hasData |-> FALSE, data |-> <<>>] :
        f \in TransportFailures}
    \cup {[fail |-> "", status |-> 500, body |-> "object", hasData |-> FALSE, data |-> <<>>],
          [fail |-> "", status |-> 200, body |-> "text", hasData |-> FALSE, data |-> <<>>],
          [fail |-> "", status |-> 200, body |-> "array", hasData |-> FALSE, data |-> <<>>],
          [fail |-> "", status |-> 200, body |-> "object", hasData |-> FALSE, data |-> <<>>]}
    \cup {[fail |-> "", status |-> 200, body |-> "object", hasData |-> TRUE, data |-> d] :
            d \in SeqsUpTo(Candidates, MaxCands)}

\* requests.post, r.raise_for_status(), r.json(), gen_resp.get("data") or []
GenData(o) ==
    IF o.fail # "" THEN [raised |-> o.fail, data |-> <<>>]
    ELSE IF o.status >= 400 THEN [raised |-> "HTTPError", data |-> <<>>]
    ELSE IF o.body = "text" THEN [raised |-> "JSONDecodeError", data |-> <<>>]
    ELSE IF o.body = "array" THEN [raised |-> "AttributeError", data |-> <<>>]
    ELSE [raised |-> "", data |-> IF o.hasData THEN o.data ELSE <<>>]

\* base64.b64decode(re.sub(r"[\n\s]", "", b64)): "A" is one data character,
\* which b64decode rejects; "QUJD" decodes to ABC
B64Decode(b64) ==
    IF b64 = "A" THEN [raised |-> "binascii.Error", bytes |-> ""]
    ELSE [raised |-> "", bytes |-> "ABC"]

\* _store_image_bytes returns the URL of morph_<timestamp>_<idx>.png or raises
\* (RuntimeError from the S3 branch, OSError from the local branch)
StoreOutcomes == {"", "RuntimeError", "OSError"}
StoredUrl(n) == [stored |-> TRUE, n |-> n, url |-> ""]
DirectUrl(u) == [stored |-> FALSE, n |-> 0, url |-> u]

\* an entry of the call history: the collaborator, the position of the image
\* or candidate, the argument, and how the collaborator answered
Call(svc, n, arg, fail, status, body) ==
    [svc |-> svc, n |-> n, arg |-> arg, fail |-> fail, status |-> status, body |-> body]

\* ------------------------------------------------------------------ pipe
\* if len(images) < 2
InsufficientInput(imgs) == Len(imgs) < 2

AllImages(imgs) == imgs

\* images[:2]
ImagesToAnalyze(imgs) == SubSeq(imgs, 1, IF Len(imgs) < 2 THEN Len(imgs) ELSE 2)

NeverEmpty(dl) == FALSE

\* if not data_list
NoCandidates(dl) == dl = <<>>

\* out_links.append(url)
AppendLink(links, url) == Append(links, url)

PipeLocalsInit ==
    /\ latest_images = 0
    /\ user_instruction = <<>>
    /\ images = <<>>
    /\ traits = <<>>
    /\ morph_prompt = NoPrompt
    /\ subject_type = ""
    /\ data_list = <<>>
    /\ idx = 0
    /\ out_links = <<>>
    /\ out = <<>>
    /\ calls = <<>>

PipeInit == pc = "start" /\ PipeLocalsInit
PipeIdle == pc = "idle" /\ PipeLocalsInit
NormIdle == nText = <<>> /\ nResult = None /\ nPc = "idle"
CompIdle ==
    /\ cTraits = None /\ cShuffled = None
    /\ cLine = TraitsToCompactLine(None) /\ cLineShuffled = TraitsToCompactLine(None)
    /\ cPc = "idle"

\* the except clause: yield "Pipeline error: ..." and the generator ends
Fail(e) ==
    /\ out' = Append(out, MsgPipelineError(e))
    /\ pc' = "done"

\* pipe up to its first yield: the extraction, which runs outside the try, and
\* the check of the number of images
Start ==
    /\ pc = "start"
    /\ \E body \in Bodies :
        LET e == ExtractUserInstructionAndImages(body)
        IN  /\ latest_images' = ImagesCarried(body)
            /\ IF e.raised # ""
               THEN /\ pc' = "raised"
                    /\ UNCHANGED <<user_instruction, images, out>>
               ELSE /\ user_instruction' = e.instruction
                    /\ images' = e.images
                    /\ IF InsufficientInput(e.images)
                       THEN /\ out' = Append(out, MsgInsufficient)
                            /\ pc' = "done"
                       ELSE /\ out' = Append(out, MsgAnalyzing(1))
                            /\ pc' = "vision"
    /\ UNCHANGED <<traits, morph_prompt, subject_type, data_list, idx, out_links, calls>>
    /\ UNCHANGED <<normVars, compVars>>

\* one pass of the loop over images[:2], from the vision request to the next
\* yield; after the last pass, the prompt is composed (traits[1] raises
\* IndexError if the loop made a single pass)
Vision ==
    /\ pc = "vision"
    /\ \E o \in VisionOutcomes :
        LET todo == ImagesToAnalyze(images)
            i == Len(traits) + 1
            img == todo[i]
            img_b64 == ToB64Payload(UrlOf(img))
            r == VisionText(o)
            ts == Append(traits, SafeJsonFromText(r.text))
        IN  /\ calls' = Append(calls, Call("vision", i, img_b64, o.fail, o.status, o.body))
            /\ IF r.raised # ""
               THEN /\ Fail(r.raised)
                    /\ UNCHANGED <<traits, morph_prompt, subject_type>>
               ELSE /\ traits' = ts
                    /\ IF i < Len(todo)
                       THEN /\ out' = Append(out, MsgAnalyzing(i + 1))
                            /\ pc' = "vision"
                            /\ UNCHANGED <<morph_prompt, subject_type>>
                       ELSE IF Len(ts) < 2
                       THEN /\ Fail("IndexError")
                            /\ UNCHANGED <<morph_prompt, subject_type>>
                       ELSE /\ subject_type' = DetectSubjectType(user_instruction)
                            /\ morph_prompt' =
                                   ComposePrompt(TraitsToCompactLine(ts[1]),
                                                 TraitsToCompactLine(ts[2]),
                                                 user_instruction)
                            /\ out' = Append(out, MsgGenerating)
                            /\ pc' = "generate"
    /\ UNCHANGED <<latest_images, user_instruction, images, data_list, idx, out_links>>
    /\ UNCHANGED <<normVars, compVars>>

\* the end of pipe once the loop over data_list is over
Finish(links) ==
    /\ out' = Append(out, IF links = <<>> THEN MsgNotStored
                          ELSE MsgGallery(links, morph_prompt))
    /\ pc' = "done"

\* the generation request and what follows it up to the next yield
Generate ==
    /\ pc = "generate"
    /\ \E o \in GenOutcomes :
        LET r == GenData(o)
        IN  /\ calls' = Append(calls, Call("generate", 1, morph_prompt, o.fail, o.status, o.body))
            /\ IF r.raised # ""
               THEN /\ Fail(r.raised)
                    /\ UNCHANGED <<data_list, idx>>
               ELSE /\ data_list' = r.data
                    /\ IF NoCandidates(r.data)
                       THEN /\ out' = Append(out, MsgNoImages)
                            /\ pc' = "done"
                            /\ UNCHANGED idx
                       ELSE /\ out' = Append(out, MsgSaving)
                            /\ pc' = "store"
                            /\ idx' = 1
    /\ UNCHANGED <<latest_images, user_instruction, images, traits, morph_prompt,
                   subject_type, out_links>>
    /\ UNCHANGED <<normVars, compVars>>

\* what one pass of the loop over data_list leaves: the links, the next
\* index and, after the last candidate, the end of pipe
Advance(links) ==
    /\ out_links' = links
    /\ idx' = idx + 1
    /\ IF idx >= Len(data_list) THEN Finish(links) ELSE UNCHANGED <<out, pc>>

\* one pass of the loop over data_list (over an empty list the loop makes no
\* pass and pipe goes to its end)
Store ==
    /\ pc = "store"
    /\ IF idx > Len(data_list)
       THEN /\ Finish(out_links)
            /\ UNCHANGED <<calls, out_links, idx>>
       ELSE LET item == data_list[idx]
                decoded == B64Decode(item.b64)
            IN  IF item.b64 = ""
                THEN /\ Advance(IF item.url # ""
                                THEN AppendLink(out_links, DirectUrl(item.url))
                                ELSE out_links)
                     /\ UNCHANGED calls
                ELSE IF decoded.raised # ""
                THEN /\ Fail(decoded.raised)
                     /\ UNCHANGED <<calls, out_links, idx>>
                ELSE \E s \in StoreOutcomes :
                        /\ calls' = Append(calls, Call("store", idx, NoUrl, s, 0, "none"))
                        /\ IF s # ""
                           THEN /\ Fail(s)
                                /\ UNCHANGED <<out_links, idx>>
                           ELSE Advance(AppendLink(out_links, StoredUrl(idx)))
    /\ UNCHANGED <<latest_images, user_instruction, images, traits, morph_prompt,
                   subject_type, data_list>>
    /\ UNCHANGED <<normVars, compVars>>

Init == PipeInit /\ NormIdle /\ CompIdle

Next == Start \/ Vision \/ Generate \/ Store

Spec == Init /\ [][Next]_vars

\* ------------------------------------------------------------------ SpecNorm
\* _safe_json_from_text applied to every text of at most MaxTextLen tokens
InitNorm ==
    /\ PipeIdle /\ CompIdle
    /\ nText \in SeqsUpTo(Tokens, MaxTextLen)
    /\ nResult = None
    /\ nPc = "in"

Normalize ==
    /\ nPc = "in"
    /\ nResult' = SafeJsonFromText(nText)
    /\ nPc' = "out"
    /\ UNCHANGED <<nText, pipeVars, compVars>>

NextNorm == Normalize

SpecNorm == InitNorm /\ [][NextNorm]_vars

\* ------------------------------------------------------------------ SpecCompact
\* _traits_to_compact_line applied to every dict of at most MaxEntries
\* entries and to the same dict with its entries reordered
TraitKeys == Vocabulary \cup {"raw", "foo"}
TraitValues == {<<>>, <<"a">>, <<"b">>}
TraitEntries == {[k |-> k, v |-> v] : k \in TraitKeys, v \in TraitValues}

Dicts ==
    {[t |-> "dict", entries |-> es] :
        es \in {s \in SeqsUpTo(TraitEntries, MaxEntries) :
                    \A a, b \in 1..Len(s) : a # b => s[a].k # s[b].k}}

SwapFirstTwo(es) ==
    IF Len(es) < 2 THEN es ELSE <<es[2], es[1]>> \o SubSeq(es, 3, Len(es))

Rotate(es) == IF es = <<>> THEN es ELSE Tail(es) \o <<Head(es)>>

Reorderings(d) ==
    {[t |-> "dict", entries |-> SwapFirstTwo(d.entries)],
     [t |-> "dict", entries |-> Rotate(d.entries)]}

InitCompact ==
    /\ PipeIdle /\ NormIdle
    /\ cTraits \in Dicts
    /\ cShuffled \in Reorderings(cTraits)
    /\ cLine = TraitsToCompactLine(None)
    /\ cLineShuffled = TraitsToCompactLine(None)
    /\ cPc = "in"

Compact ==
    /\ cPc = "in"
    /\ cLine' = TraitsToCompactLine(cTraits)
    /\ cLineShuffled' = TraitsToCompactLine(cShuffled)
    /\ cPc' = "out"
    /\ UNCHANGED <<cTraits, cShuffled, pipeVars, normVars>>

NextCompact == Compact

SpecCompact == InitCompact /\ [][NextCompact]_vars

\* ================================================================== claims
Last(s) == s[Len(s)]

Ended == pc \in {"done", "raised"}

IsTerminalMessage(m) == m.kind \in {"insufficient", "error", "pipeline_error", "gallery"}

Http2xx(c) == c.fail = "" /\ c.status >= 200 /\ c.status <= 299

\* the generation call returned a 2xx JSON object
GenerationSucceeded ==
    \E j \in 1..Len(calls) :
        calls[j].svc = "generate" /\ Http2xx(calls[j]) /\ calls[j].body = "object"

StorageNeverFailed == \A j \in 1..Len(calls) : calls[j].svc = "store" => calls[j].fail = ""

\* C1: consuming the stream of pipe never raises to the caller, whatever the
\* request body and the collaborators do.
C1_PipeNeverRaises == pc # "raised"

\* C2: once some candidate has yielded a URL, a decode or persist failure on
\* another candidate does not abort the run: it ends with the gallery of the
\* URLs obtained, and the storage-failure error is only for no URL at all.
C2_PartialFailureTolerated ==
    pc = "done" /\ GenerationSucceeded =>
        /\ out_links # <<>> =>
              Last(out).kind = "gallery" /\ Last(out).links = out_links
        /\ Last(out) = MsgNotStored => out_links = <<>>

\* C3: a vision call that fails (transport error, timeout, or non-2xx status)
\* aborts the run with a Pipeline error and is the last collaborator call.
C3_VisionFailureAborts ==
    \A j \in 1..Len(calls) :
        calls[j].svc = "vision" /\ ~Http2xx(calls[j]) =>
            /\ pc = "done"
            /\ Last(out).kind = "pipeline_error"
            /\ Len(calls) = j

\* C4: when the latest turn of the request carries 0 or 1 image, the run
\* yields exactly the 'upload two images' message, ends, and calls no
\* collaborator.
C4_FewerThanTwoImages ==
    pc \notin {"start", "idle"} /\ latest_images < 2 =>
        /\ pc = "done"
        /\ out = <<MsgInsufficient>>
        /\ calls = <<>>

\* C5: a generation call that succeeds with an empty or missing candidate
\* list ends the run with the single error "No images returned": no
\* 'Saving results' stage, no storage call.
C5_NoCandidatesStopsBeforeStorage ==
    GenerationSucceeded /\ data_list = <<>> =>
        /\ pc = "done"
        /\ Last(out) = MsgNoImages
        /\ \A m \in 1..(Len(out) - 1) : out[m].kind = "staged" /\ out[m] # MsgSaving
        /\ \A j \in 1..Len(calls) : calls[j].svc # "store"

C5_Witness ==
    /\ pc = "done" /\ GenerationSucceeded /\ data_list = <<>>
    /\ Last(out) = MsgNoImages /\ Len(calls) = 3

\* the references the gallery is to hold: one per candidate with an inline
\* payload (stored under its position) or else a direct URL, in response order
RECURSIVE ExpectedLinksFrom(_, _)
ExpectedLinksFrom(dl, k) ==
    IF k > Len(dl) THEN <<>>
    ELSE (IF dl[k].b64 # "" THEN <<StoredUrl(k)>>
          ELSE IF dl[k].url # "" THEN <<DirectUrl(dl[k].url)>>
          ELSE <<>>) \o ExpectedLinksFrom(dl, k + 1)

StoreCallPositions == SelectSeq([j \in 1..Len(calls) |-> calls[j]], LAMBDA c : c.svc = "store")

InlinePositions(dl) == {k \in 1..Len(dl) : dl[k].b64 # ""}

GalleryAsExpected ==
    LET exp == ExpectedLinksFrom(data_list, 1)
    IN  exp # <<>> =>
            /\ Last(out).kind = "gallery"
            /\ Last(out).links = exp
            /\ Len(StoreCallPositions) = Cardinality(InlinePositions(data_list))
            /\ \A j \in 1..Len(StoreCallPositions) :
                   /\ StoreCallPositions[j].n \in InlinePositions(data_list)
                   /\ j > 1 => StoreCallPositions[j - 1].n < StoreCallPositions[j].n

\* C6: for every non-empty generation response, with a storage collaborator
\* that succeeds, the gallery holds one reference per candidate with an
\* inline payload or a direct URL, in response order; inline payloads are
\* stored with one storage call each, URL-only candidates are used as they are.
C6_GalleryPerCandidate ==
    pc = "done" /\ GenerationSucceeded /\ data_list # <<>> /\ StorageNeverFailed =>
        GalleryAsExpected

\* C7: the collaborator calls of a run are, in this order, the vision call
\* for image 1, the vision call for image 2, one generation call, then
\* storage calls for increasing candidates; none is repeated; only the
\* first two images, in input order, go to the vision collaborator.
C7_CallOrder ==
    /\ \A j \in 1..Len(calls) :
        /\ j <= 2 => /\ calls[j].svc = "vision"
                     /\ calls[j].n = j
                     /\ calls[j].arg = ToB64Payload(UrlOf(images[j]))
        /\ j = 3 => calls[j].svc = "generate"
        /\ j > 3 => calls[j].svc = "store"
        /\ j > 4 => calls[j - 1].n < calls[j].n
    /\ \A a, b \in 1..Len(calls) :
        a # b => <<calls[a].svc, calls[a].n>> # <<calls[b].svc, calls[b].n>>

C7_Witness ==
    /\ pc = "done"
    /\ Len(images) = 3 /\ images[1] # images[2]
    /\ Len(calls) = 5
    /\ calls[5].svc = "store"

\* C8: _safe_json_from_text returns a dict that either has only keys of the
\* 8-key vocabulary or has exactly the key raw, for every text.
C8_NormalizerShape ==
    nPc = "out" =>
        /\ nResult.t = "dict"
        /\ DictKeys(nResult) = {"raw"} \/ DictKeys(nResult) \subseteq Vocabulary

\* position, in keys_order, of the key a part of the line was rendered from
CanonIndex(hk) == CHOOSE j \in 1..Len(KeysOrder) : HumanKey(KeysOrder[j]) = hk

FilledKeys(d) == {k \in Vocabulary : DictGet(d, k) # <<>>}

IsFallback(d) == DictKeys(d) = {"raw"}

\* C9: for a dict that is not the fallback form and has a recognised key
\* with a non-empty value, the line has exactly one "key: value" part per
\* such key, in the canonical order, and a reordered dict gives the same line.
C9_CanonicalOrder ==
    cPc = "out" /\ ~IsFallback(cTraits) /\ FilledKeys(cTraits) # {} =>
        /\ cLine.kind = "line"
        /\ Len(cLine.parts) = Cardinality(FilledKeys(cTraits))
        /\ \A k \in FilledKeys(cTraits) :
              \E j \in 1..Len(cLine.parts) :
                  cLine.parts[j] = [k |-> HumanKey(k), v |-> DictGet(cTraits, k)]
        /\ \A a, b \in 1..Len(cLine.parts) :
              a < b => CanonIndex(cLine.parts[a].k) < CanonIndex(cLine.parts[b].k)
        /\ cLineShuffled = cLine

C9_Witness ==
    /\ cPc = "out"
    /\ cTraits.entries = <<[k |-> "style", v |-> <<"a">>], [k |-> "foo", v |-> <<"a">>],
                           [k |-> "primary_subject", v |-> <<"b">>]>>
    /\ cLine.parts = <<[k |-> "primary subject", v |-> <<"b">>],
                       [k |-> "style", v |-> <<"a">>]>>
    /\ cShuffled # cTraits

StagedOrder(m) ==
    IF m = MsgAnalyzing(1) THEN 1
    ELSE IF m = MsgAnalyzing(2) THEN 2
    ELSE IF m = MsgGenerating THEN 3
    ELSE IF m = MsgSaving THEN 4
    ELSE 0

\* C10: the stream of every run ends with exactly one terminal message; all
\* messages before it are STAGED statuses in the order Analyzing image 1,
\* Analyzing image 2, Generating candidates, Saving results.
C10_StreamShape ==
    /\ Ended => Len(out) >= 1 /\ IsTerminalMessage(Last(out))
    /\ \A m \in 1..Len(out) :
        (m < Len(out) \/ ~Ended) => out[m].kind = "staged" /\ StagedOrder(out[m]) = m

====
